---------------------------- MODULE Spec2Model ----------------------------
(***************************************************************************)
(* Model of the Telegram bot of this repository: the message splitter and  *)
(* the markup repair (handlers.go), the send/retry/fallback loops          *)
(* (handlers.go), and the concurrent message handlers over the settings    *)
(* store (handlers.go, the config file of src/unnamed/part_003, the main   *)
(* loop of src/unnamed/part_004).                                          *)
(*                                                                         *)
(* A Go string is modelled as a sequence of one-character strings, one per *)
(* byte; Go indices are 0-based, so At(s, i) is s[i] of the code.          *)
(***************************************************************************)
EXTENDS Integers, Sequences, FiniteSets, TLC

VARIABLES
    \* ---- the split loops of sendMultipartMessage / sendMultipartHTMLMessage
    raw,         \* the text argument of sendMarkdownMessage, before convertToTelegramHTML
    text,        \* the text handed to the function
    M,           \* maxPartSize (4000 in the code; a parameter 1..MaxM here)
    mode,        \* "plain": sendMultipartMessage, "html": sendMultipartHTMLMessage
    remaining,   \* local variable remaining
    bodies,      \* remaining[:splitIndex] of every cut, in order (before repair)
    parts,       \* local variable parts
    spc,         \* position in the send function (see the actions)
    \* ---- the send loops of sendMessage, sendMarkdownMessage, sendMultipart*
    fn,          \* the function entered: "sendMessage" or "sendMarkdownMessage"
    partI,       \* index of the part being sent (loop variable i, 0-based)
    tryJ,        \* attempt counter (loop variable i of the single sends, j of the parts)
    success,     \* local variable success of the part loops
    calls,       \* the bot.Send calls made for the current message or part, in order
    delivered,   \* for every part whose attempts are over: the final value of success
    \* ---- the settings store (config, configMu) and the config file
    cfgUsers,    \* config.Users: user id -> User (OpenRouterToken, CurrentModel) or NoUser
    cfgAuth,     \* config.AuthorizedIDs: user id -> authorized (absent reads as false)
    cfgLog,      \* config.LogLevel
    models,      \* the map object User.Models of every user: shared by all copies of the User
    file,        \* bot_config.json as last written by saveConfig
    configMu,    \* holder of configMu: Free, a task, or BgSaver
    bgSaves,     \* number of `go saveConfig()` goroutines that have not run yet
    crashed,     \* the runtime stopped the process (unsynchronized map access)
    mainPc,      \* position of main: in loadConfig, in its update loop ("run"), or exited
    \* ---- one task per incoming message (the goroutines of main)
    msg,         \* task -> the message it handles: [from, text, cmd, arg, id]
    pc,          \* task -> position of handleMessageWithContext
    user,        \* task -> local variable user (the copy getUser returned)
    auth,        \* task -> what isAuthorized read at config.AuthorizedIDs[userID]
    ctx,         \* task -> "live", "timedout" (deadline passed, notice sent), "completed"
    sent,        \* task -> the messages handed to the transport for it, in order
    backend,     \* task -> the backend calls made: subset of {"complete", "credits"}
    wrote        \* task -> it has created or changed config.Users[userID] or its Models

splitVars == <<raw, text, M, mode, remaining, bodies, parts>>

sendVars == <<fn, partI, tryJ, success, calls, delivered>>

storeVars == <<cfgUsers, cfgAuth, cfgLog, models, file, configMu, bgSaves, crashed, mainPc>>

taskVars == <<msg, pc, user, auth, ctx, sent, backend, wrote>>

vars == <<raw, text, M, mode, remaining, bodies, parts, spc, fn, partI, tryJ, success, calls,
          delivered, cfgUsers, cfgAuth, cfgLog, models, file, configMu, bgSaves, crashed,
          mainPc, msg, pc, user, auth, ctx, sent, backend, wrote>>

-----------------------------------------------------------------------------
(* Bounds *)

MaxM == 4
MaxLen == 6
MaxTokens == 5
MaxSendTokens == 2
MaxSendM == 3
MaxDepth == 20
MaxConvTokens == 4
MaxBytes == 4
NTasks == 2
NUsers == 2

\* maxRetries := 3 of the four send functions
maxRetries == 3

-----------------------------------------------------------------------------
(* Go strings *)

At(s, i) == s[i + 1]

\* s[lo:hi] of Go
Slice(s, lo, hi) == SubSeq(s, lo + 1, hi)

Max(S) == CHOOSE x \in S : \A y \in S : y <= x

Min(S) == CHOOSE x \in S : \A y \in S : x <= y

\* [a-z] of the regular expressions, restricted to the letters of the alphabets
IsLetter(c) == c \in {"a", "b", "i"}

-----------------------------------------------------------------------------
(* findSplitPoint *)

IsSentenceEnd(c) == c \in {".", "?", "!"}

\* as findSplitPoint, but scanning every index from maxSize down to 1
findSplitPoint_WholeWindow(t, maxSize) ==
    IF Len(t) <= maxSize THEN Len(t)
    ELSE
      LET W     == 1..maxSize
          para  == {i \in W : At(t, i) = "\n" /\ i > 0 /\ At(t, i - 1) = "\n"}
          line  == {i \in W : At(t, i) = "\n"}
          stops == {i \in W : i < Len(t) /\ IsSentenceEnd(At(t, i))}
          space == {i \in W : At(t, i) = " "}
      IN  IF para # {} THEN Max(para) + 1
          ELSE IF line # {} THEN Max(line) + 1
          ELSE IF stops # {} THEN
               LET i == Max(stops)
               IN  IF i + 1 < Len(t) /\ At(t, i + 1) = " " THEN i + 2 ELSE i + 1
          ELSE IF space # {} THEN Max(space) + 1
          ELSE maxSize

findSplitPoint(t, maxSize) ==
    IF Len(t) <= maxSize THEN Len(t)
    ELSE
      LET W     == {i \in (maxSize \div 2 + 1)..maxSize : TRUE}
          para  == {i \in W : At(t, i) = "\n" /\ i > 0 /\ At(t, i - 1) = "\n"}
          line  == {i \in W : At(t, i) = "\n"}
          stops == {i \in W : i < Len(t) /\ IsSentenceEnd(At(t, i))}
          space == {i \in W : At(t, i) = " "}
      IN  IF para # {} THEN Max(para) + 1
          ELSE IF line # {} THEN Max(line) + 1
          ELSE IF stops # {} THEN
               LET i == Max(stops)
               IN  IF i + 1 < Len(t) /\ At(t, i + 1) = " " THEN i + 2 ELSE i + 1
          ELSE IF space # {} THEN Max(space) + 1
          ELSE maxSize

\* the indices of t that the four loops of findSplitPoint may read: text[i],
\* text[i-1] behind `text[i] == '\n' && i > 0`, text[i+1] behind `i+1 < len(text)`
findSplitPointReads(t, maxSize) ==
    IF Len(t) <= maxSize THEN {}
    ELSE
      LET W == (maxSize \div 2 + 1)..maxSize
      IN  {i \in W : TRUE}
          \cup {i - 1 : i \in {j \in W : At(t, j) = "\n" /\ j > 0}}
          \cup {i + 1 : i \in {j \in W : j < Len(t) /\ IsSentenceEnd(At(t, j))
                                            /\ j + 1 < Len(t)}}

-----------------------------------------------------------------------------
(* ensureHTMLTagsClosed *)

\* the maximal run of letters of s that starts at index p
RECURSIVE LetterRun(_, _)
LetterRun(s, p) ==
    IF p < Len(s) /\ IsLetter(At(s, p)) THEN <<At(s, p)>> \o LetterRun(s, p + 1)
    ELSE <<>>

\* a match of <([a-z]+)[^>]*> that starts at index p
OpenTagAt(s, p) ==
    /\ p + 1 < Len(s)
    /\ At(s, p) = "<"
    /\ IsLetter(At(s, p + 1))
    /\ \E q \in (p + 2)..(Len(s) - 1) : At(s, q) = ">"

\* the index after the match of the opening-tag expression at p
OpenTagEnd(s, p) == Min({q \in (p + 2)..(Len(s) - 1) : At(s, q) = ">"}) + 1

\* a match of </([a-z]+)> that starts at index p
CloseTagAt(s, p) ==
    /\ p + 2 < Len(s)
    /\ At(s, p) = "<"
    /\ At(s, p + 1) = "/"
    /\ IsLetter(At(s, p + 2))
    /\ LET r == p + 2 + Len(LetterRun(s, p + 2))
       IN  r < Len(s) /\ At(s, r) = ">"

CloseTagEnd(s, p) == p + 2 + Len(LetterRun(s, p + 2)) + 1

\* FindAllStringSubmatch of the opening-tag expression: the names, in order
RECURSIVE openTags(_, _)
openTags(s, p) ==
    IF p >= Len(s) THEN <<>>
    ELSE IF OpenTagAt(s, p)
         THEN <<LetterRun(s, p + 1)>> \o openTags(s, OpenTagEnd(s, p))
         ELSE openTags(s, p + 1)

\* FindAllStringSubmatch of the closing-tag expression: the names, in order
RECURSIVE closedTags(_, _)
closedTags(s, p) ==
    IF p >= Len(s) THEN <<>>
    ELSE IF CloseTagAt(s, p)
         THEN <<LetterRun(s, p + 2)>> \o closedTags(s, CloseTagEnd(s, p))
         ELSE closedTags(s, p + 1)

Count(seq, x) == Cardinality({k \in 1..Len(seq) : seq[k] = x})

Range(seq) == {seq[k] : k \in 1..Len(seq)}

\* tagCount: opening minus closing occurrences of every tag name met
tagCount(s) ==
    LET o == openTags(s, 0)
        c == closedTags(s, 0)
    IN  [tag \in Range(o) \cup Range(c) |-> Count(o, tag) - Count(c, tag)]

RECURSIVE Repeat(_, _)
Repeat(s, n) == IF n <= 0 THEN <<>> ELSE s \o Repeat(s, n - 1)

\* the orders in which `for tag, count := range tagCount` may visit the keys
MapOrders(keys) ==
    {o \in [1..Cardinality(keys) -> keys] : Range(o) = keys}

RECURSIVE AppendClosers(_, _, _, _)
AppendClosers(s, tc, order, k) ==
    IF k > Len(order) THEN s
    ELSE AppendClosers(s \o Repeat(<<"<", "/">> \o order[k] \o <<">">>, tc[order[k]]),
                       tc, order, k + 1)

\* ensureHTMLTagsClosed, for one iteration order of the map
ensureHTMLTagsClosed(htmlFragment, order) ==
    AppendClosers(htmlFragment, tagCount(htmlFragment), order, 1)

-----------------------------------------------------------------------------
(* convertToTelegramHTML *)

\* the character '`'
Backtick == "backtick"

\* "```"
Fence == <<Backtick, Backtick, Backtick>>

\* pat occurs in s at index p
StartsAt(s, p, pat) ==
    /\ p + Len(pat) <= Len(s)
    /\ SubSeq(s, p + 1, p + Len(pat)) = pat

\* the indices q >= p where pat occurs, reached from p over characters that
\* `.` matches (no newline) when dot is TRUE, over any characters otherwise
Ends(s, p, pat, dot) ==
    {q \in p..Len(s) :
        /\ StartsAt(s, q, pat)
        /\ dot => \A k \in p..(q - 1) : At(s, k) # "\n"}

\* html.EscapeString
RECURSIVE EscapeString(_)
EscapeString(s) ==
    IF s = <<>> THEN <<>>
    ELSE (CASE Head(s) = "<" -> <<"&", "l", "t", ";">>
            [] Head(s) = ">" -> <<"&", "g", "t", ";">>
            [] Head(s) = "&" -> <<"&", "a", "m", "p", ";">>
            [] Head(s) = "'" -> <<"&", "#", "3", "9", ";">>
            [] Head(s) = "\"" -> <<"&", "#", "3", "4", ";">>
            [] OTHER -> <<Head(s)>>) \o EscapeString(Tail(s))

\* the match of "```(?:.*?)\n([\s\S]*?)```" that starts at index p: the index
\* of the first newline behind the fence, and the index of the closing fence
CodeBlockNewlines(s, p) == {n \in (p + 3)..(Len(s) - 1) : At(s, n) = "\n"}

CodeBlockAt(s, p) ==
    /\ StartsAt(s, p, Fence)
    /\ CodeBlockNewlines(s, p) # {}
    /\ Ends(s, Min(CodeBlockNewlines(s, p)) + 1, Fence, FALSE) # {}

\* codeBlockRegex.ReplaceAllStringFunc: "<pre>" + html.EscapeString(content) + "</pre>"
RECURSIVE replaceCodeBlocks(_, _)
replaceCodeBlocks(s, p) ==
    IF p >= Len(s) THEN <<>>
    ELSE IF CodeBlockAt(s, p)
         THEN LET n == Min(CodeBlockNewlines(s, p))
                  e == Min(Ends(s, n + 1, Fence, FALSE))
              IN  <<"<", "p", "r", "e", ">">> \o EscapeString(Slice(s, n + 1, e)) \o <<"<", "/", "p", "r", "e", ">">>
                  \o replaceCodeBlocks(s, e + 3)
         ELSE <<At(s, p)>> \o replaceCodeBlocks(s, p + 1)

\* inlineCodeRegex "`([^`]+)`" replaced by "<code>$1</code>"
RECURSIVE replaceInlineCode(_, _)
replaceInlineCode(s, p) ==
    IF p >= Len(s) THEN <<>>
    ELSE IF /\ At(s, p) = Backtick
            /\ Ends(s, p + 1, <<Backtick>>, FALSE) # {}
            /\ Min(Ends(s, p + 1, <<Backtick>>, FALSE)) > p + 1
         THEN LET e == Min(Ends(s, p + 1, <<Backtick>>, FALSE))
              IN  <<"<", "c", "o", "d", "e", ">">> \o Slice(s, p + 1, e) \o <<"<", "/", "c", "o", "d", "e", ">">>
                  \o replaceInlineCode(s, e + 1)
         ELSE <<At(s, p)>> \o replaceInlineCode(s, p + 1)

\* regexp `open(.*?)close` replaced by before + "$1" + after, as
\* ReplaceAllString does it: leftmost matches, the shortest group, no overlap
RECURSIVE replaceSpans(_, _, _, _, _, _)
replaceSpans(s, p, open, close, before, after) ==
    IF p >= Len(s) THEN <<>>
    ELSE IF StartsAt(s, p, open) /\ Ends(s, p + Len(open), close, TRUE) # {}
         THEN LET e == Min(Ends(s, p + Len(open), close, TRUE))
              IN  before \o Slice(s, p + Len(open), e) \o after
                  \o replaceSpans(s, e + Len(close), open, close, before, after)
         ELSE <<At(s, p)>> \o replaceSpans(s, p + 1, open, close, before, after)

\* the ends q of the first group of a match of `\[(.*?)\]\((.*?)\)` at p
LinkMids(s, p) ==
    {q \in Ends(s, p + 1, <<"]", "(">>, TRUE) : Ends(s, q + 2, <<")">>, TRUE) # {}}

\* linkRegex replaced by "<a href=\"$2\">$1</a>"
RECURSIVE replaceLinks(_, _)
replaceLinks(s, p) ==
    IF p >= Len(s) THEN <<>>
    ELSE IF At(s, p) = "[" /\ LinkMids(s, p) # {}
         THEN LET m == Min(LinkMids(s, p))
                  e == Min(Ends(s, m + 2, <<")">>, TRUE))
              IN  <<"<", "a", " ", "h", "r", "e", "f", "=", "\"">> \o Slice(s, m + 2, e) \o <<"\"", ">">> \o Slice(s, p + 1, m)
                  \o <<"<", "/", "a", ">">> \o replaceLinks(s, e + 1)
         ELSE <<At(s, p)>> \o replaceLinks(s, p + 1)

\* convertTableToTelegramFormat: tableBlockRegex needs lines that start and
\* end with '|'; a text without '|' has no match and is returned as it is
convertTableToTelegramFormat(s) == s

\* strings.ReplaceAll
RECURSIVE ReplaceAll(_, _, _, _)
ReplaceAll(s, p, old, new) ==
    IF p >= Len(s) THEN <<>>
    ELSE IF StartsAt(s, p, old) THEN new \o ReplaceAll(s, p + Len(old), old, new)
    ELSE <<At(s, p)>> \o ReplaceAll(s, p + 1, old, new)

\* the entries of the map `entities` that the texts here can hold (the other
\* entities need letters or digits that neither the inputs nor
\* html.EscapeString of them produce)
entities ==
    {[entity |-> <<"&", "a", "m", "p", ";">>, char |-> <<"&">>],
     [entity |-> <<"&", "l", "t", ";">>, char |-> <<"<">>],
     [entity |-> <<"&", "g", "t", ";">>, char |-> <<">">>]}

\* `for entity, char := range entities { text = strings.ReplaceAll(...) }`
\* in one iteration order of the map
RECURSIVE replaceEntities(_, _, _)
replaceEntities(s, order, k) ==
    IF k > Len(order) THEN s
    ELSE replaceEntities(ReplaceAll(s, 0, order[k].entity, order[k].char), order, k + 1)

\* decodeHTMLEntities, for one iteration order of the map (numericEntityRegex
\* needs "&#" and digits, which no text here holds after the loop)
decodeHTMLEntities(s, order) == replaceEntities(s, order, 1)

\* convertToTelegramHTML, for one iteration order of the entity map
convertToTelegramHTML(s, order) ==
    LET t1 == replaceCodeBlocks(s, 0)
        t2 == replaceInlineCode(t1, 0)
        t3 == replaceSpans(t2, 0, <<"*", "*">>, <<"*", "*">>, <<"<", "b", ">">>, <<"<", "/", "b", ">">>)
        t4 == replaceSpans(t3, 0, <<"*">>, <<"*">>, <<"<", "b", ">">>, <<"<", "/", "b", ">">>)
        t5 == replaceSpans(t4, 0, <<"_">>, <<"_">>, <<"<", "i", ">">>, <<"<", "/", "i", ">">>)
        t6 == replaceLinks(t5, 0)
        t7 == convertTableToTelegramFormat(t6)
    IN  decodeHTMLEntities(t7, order)

-----------------------------------------------------------------------------
(* The texts the split loops are run on *)

PlainAlphabet == {"a", " ", ".", "\n"}

PlainTexts == UNION {[1..n -> PlainAlphabet] : n \in 1..MaxLen}

HtmlTokens ==
    {<<"<", "b", ">">>, <<"<", "/", "b", ">">>,
     <<"<", "i", ">">>, <<"<", "/", "i", ">">>, <<"a">>, <<" ">>}

RECURSIVE Flatten(_)
Flatten(ts) == IF ts = <<>> THEN <<>> ELSE Head(ts) \o Flatten(Tail(ts))

\* a tag-stack scan of s from index p with stack st: TRUE iff no closing tag
\* meets a different or missing opener and the stack is empty at the end
RECURSIVE StackScan(_, _, _)
StackScan(s, p, st) ==
    IF p >= Len(s) THEN st = <<>>
    ELSE IF CloseTagAt(s, p)
         THEN /\ st # <<>>
              /\ st[Len(st)] = LetterRun(s, p + 2)
              /\ StackScan(s, CloseTagEnd(s, p), SubSeq(st, 1, Len(st) - 1))
    ELSE IF OpenTagAt(s, p)
         THEN StackScan(s, OpenTagEnd(s, p), Append(st, LetterRun(s, p + 1)))
    ELSE StackScan(s, p + 1, st)

Balanced(s) == StackScan(s, 0, <<>>)

\* formatted texts: every opening tag has its closing tag, correctly nested
HtmlTexts ==
    {t \in {Flatten(ts) : ts \in UNION {[1..n -> HtmlTokens] : n \in 1..MaxTokens}} :
        Balanced(t)}

-----------------------------------------------------------------------------
(* The settings store *)

Users == 1..NUsers

Tasks == 1..NTasks

\* getBotPassword(): the value of BOT_PASSWORD
Password == "pw"

NoUser == [absent |-> TRUE]

\* the User getUser builds for an unknown id (its Models map is DefaultModels)
NewUser == [OpenRouterToken |-> "", CurrentModel |-> "gpt-3.5-turbo"]

defaultModels ==
    [n \in {"gpt-3.5-turbo", "gpt-4", "claude-instant", "claude-2", "llama-2-70b",
            "mistral-7b-instruct"} |->
        CASE n = "gpt-3.5-turbo" -> "openai/gpt-3.5-turbo"
          [] n = "gpt-4" -> "openai/gpt-4"
          [] n = "claude-instant" -> "anthropic/claude-instant-v1"
          [] n = "claude-2" -> "anthropic/claude-2"
          [] n = "llama-2-70b" -> "meta-llama/llama-2-70b-chat"
          [] OTHER -> "mistralai/mistral-7b-instruct-v0.1"]

\* m[k] of a Go map: the zero value for a missing key
Lookup(m, k) == IF k \in DOMAIN m THEN m[k] ELSE ""

\* m[k] = v
MapSet(m, k, v) == [n \in DOMAIN m \cup {k} |-> IF n = k THEN v ELSE m[n]]

\* delete(m, k)
MapDelete(m, k) == [n \in DOMAIN m \ {k} |-> m[n]]

Free == [kind |-> "free", id |-> 0]

Holder(t) == [kind |-> "task", id |-> t]

BgSaver == [kind |-> "bg", id |-> 0]

\* configMu is held by main, in loadConfig or in the saveConfig it calls
Main == [kind |-> "main", id |-> 0]

\* what json.MarshalIndent(config) reads
Snapshot == [Users |-> cfgUsers, AuthorizedIDs |-> cfgAuth, LogLevel |-> cfgLog,
             Models |-> models]

\* no message handler exists (the specifications of the send functions)
NoHandlers ==
    /\ cfgUsers = <<>>
    /\ cfgAuth = <<>>
    /\ cfgLog = "info"
    /\ models = <<>>
    /\ file = <<>>
    /\ configMu = Free
    /\ bgSaves = 0
    /\ crashed = FALSE
    /\ mainPc = "run"
    /\ msg = <<>>
    /\ pc = <<>>
    /\ user = <<>>
    /\ auth = <<>>
    /\ ctx = <<>>
    /\ sent = <<>>
    /\ backend = <<>>
    /\ wrote = <<>>

-----------------------------------------------------------------------------
(* UTF-8: the bytes of a string, utf8.ValidString and ensureUTF8.            *)
(* The non-ASCII bytes are those of one two-byte character (U+00E9) and of   *)
(* the three-byte replacement character U+FFFD.                              *)

\* 0xC3: the first byte of a two-byte character
Lead2 == "xC3"

\* 0xEF: the first byte of a three-byte character
Lead3 == "xEF"

\* 0xA9, 0xBF, 0xBD: continuation bytes
ContinuationBytes == {"xA9", "xBF", "xBD"}

\* '�' as strings.Map writes it
ReplacementChar == <<"xEF", "xBF", "xBD">>

\* the width of the character that starts at byte i of s (utf8.DecodeRuneInString
\* at s[i:]); 0 when the bytes there are no valid encoding (RuneError, width 1)
RuneLen(s, i) ==
    IF At(s, i) = Lead2
    THEN IF i + 1 < Len(s) /\ At(s, i + 1) \in ContinuationBytes THEN 2 ELSE 0
    ELSE IF At(s, i) = Lead3
    THEN IF /\ i + 2 < Len(s)
            /\ At(s, i + 1) \in ContinuationBytes
            /\ At(s, i + 2) \in ContinuationBytes
         THEN 3 ELSE 0
    ELSE IF At(s, i) \in ContinuationBytes THEN 0
    ELSE 1

RECURSIVE ValidFrom(_, _)
ValidFrom(s, i) ==
    IF i >= Len(s) THEN TRUE
    ELSE IF RuneLen(s, i) = 0 THEN FALSE
    ELSE ValidFrom(s, i + RuneLen(s, i))

\* utf8.ValidString
ValidString(s) == ValidFrom(s, 0)

\* strings.Map of ensureUTF8 from byte i on: a valid character is kept, an
\* invalid byte becomes the replacement character
RECURSIVE MapRunes(_, _)
MapRunes(s, i) ==
    IF i >= Len(s) THEN <<>>
    ELSE IF RuneLen(s, i) = 0 THEN ReplacementChar \o MapRunes(s, i + 1)
    ELSE Slice(s, i, i + RuneLen(s, i)) \o MapRunes(s, i + RuneLen(s, i))

ensureUTF8(s) == IF ~ValidString(s) THEN MapRunes(s, 0) ELSE s

\* the bytes of the texts that hold non-ASCII characters, valid or not
ByteAlphabet == {"a", " ", Lead2, "xA9"}

ByteTexts == UNION {[1..n -> ByteAlphabet] : n \in 1..MaxBytes}

\* what sendMessage and sendMarkdownMessage hand on after ensureUTF8
Utf8Texts == {ensureUTF8(b) : b \in ByteTexts}

-----------------------------------------------------------------------------
(* The split loops *)

InitSplit ==
    /\ M \in 1..MaxM
    /\ mode \in {"plain", "html"}
    /\ text \in {t \in PlainTexts \cup HtmlTexts \cup Utf8Texts : Len(t) > M}
    /\ raw = <<>>
    /\ remaining = text
    /\ bodies = <<>>
    /\ parts = <<>>
    /\ spc = "split"
    /\ fn = (IF mode = "plain" THEN "sendMessage" ELSE "sendMarkdownMessage")
    /\ partI = 0
    /\ tryJ = 0
    /\ success = FALSE
    /\ calls = <<>>
    /\ delivered = <<>>
    /\ NoHandlers

\* remaining = remaining[splitIndex:], dropping the character at the cut
Rest_SkipsBoundary(rem, splitIndex) == Slice(rem, splitIndex + 1, Len(rem))

\* remaining = remaining[splitIndex:]
Rest(rem, splitIndex) == Slice(rem, splitIndex, Len(rem))

\* one iteration of `for len(remaining) > maxPartSize` of sendMultipartMessage
SplitStepPlain ==
    /\ spc = "split"
    /\ mode = "plain"
    /\ Len(remaining) > M
    /\ LET splitIndex == findSplitPoint(remaining, M)
       IN  /\ parts' = Append(parts, Slice(remaining, 0, splitIndex))
           /\ bodies' = Append(bodies, Slice(remaining, 0, splitIndex))
           /\ remaining' = Rest(remaining, splitIndex)
    /\ UNCHANGED <<raw, text, M, mode, spc>>
    /\ UNCHANGED sendVars
    /\ UNCHANGED <<storeVars, taskVars>>

\* one iteration of `for len(remaining) > maxPartSize` of sendMultipartHTMLMessage
SplitStepHTML ==
    /\ spc = "split"
    /\ mode = "html"
    /\ Len(remaining) > M
    /\ LET splitIndex == findSplitPoint(remaining, M)
           part       == Slice(remaining, 0, splitIndex)
       IN  /\ \E order \in MapOrders(DOMAIN tagCount(part)) :
                 parts' = Append(parts, ensureHTMLTagsClosed(part, order))
           /\ bodies' = Append(bodies, part)
           /\ remaining' = Rest(remaining, splitIndex)
    /\ UNCHANGED <<raw, text, M, mode, spc>>
    /\ UNCHANGED sendVars
    /\ UNCHANGED <<storeVars, taskVars>>

\* `if len(remaining) > 0 { parts = append(parts, remaining) }`
SplitFinish ==
    /\ spc = "split"
    /\ Len(remaining) <= M
    /\ parts' = IF Len(remaining) > 0 THEN Append(parts, remaining) ELSE parts
    /\ bodies' = IF Len(remaining) > 0 THEN Append(bodies, remaining) ELSE bodies
    /\ spc' = "send"
    /\ UNCHANGED <<raw, text, M, mode, remaining>>
    /\ UNCHANGED sendVars
    /\ UNCHANGED <<storeVars, taskVars>>

NextSplit == SplitStepPlain \/ SplitStepHTML \/ SplitFinish

SpecSplit == InitSplit /\ [][NextSplit]_vars

-----------------------------------------------------------------------------
(* The send loops *)

\* stripHTMLTags: every match of <[^>]*> removed
RECURSIVE stripFrom(_, _)
stripFrom(s, p) ==
    IF p >= Len(s) THEN <<>>
    ELSE IF At(s, p) = "<" /\ \E q \in (p + 1)..(Len(s) - 1) : At(s, q) = ">"
         THEN stripFrom(s, Min({q \in (p + 1)..(Len(s) - 1) : At(s, q) = ">"}) + 1)
         ELSE <<At(s, p)>> \o stripFrom(s, p + 1)

stripHTMLTags(s) == stripFrom(s, 0)

DigitChar == <<"0", "1", "2", "3", "4", "5", "6", "7", "8", "9">>

\* %d of fmt.Sprintf
RECURSIVE Decimal(_)
Decimal(n) ==
    IF n < 10 THEN <<DigitChar[n + 1]>>
    ELSE Decimal(n \div 10) \o <<DigitChar[(n % 10) + 1]>>

\* as plainHeader, but numbering the parts from 0
plainHeader_ZeroBased(idx, totalParts) ==
    IF totalParts > 1
    THEN <<"P", "a", "r", "t", " ">> \o Decimal(idx) \o <<"/">>
         \o Decimal(totalParts) \o <<":", "\n", "\n">>
    ELSE <<>>

\* fmt.Sprintf("Part %d/%d:\n\n", i+1, totalParts), or "" for a single part
plainHeader(idx, totalParts) ==
    IF totalParts > 1
    THEN <<"P", "a", "r", "t", " ">> \o Decimal(idx + 1) \o <<"/">>
         \o Decimal(totalParts) \o <<":", "\n", "\n">>
    ELSE <<>>

\* fmt.Sprintf("<b>Part %d/%d:</b>\n\n", i+1, totalParts), or "" for a single part
htmlHeader(idx, totalParts) ==
    IF totalParts > 1
    THEN <<"<", "b", ">", "P", "a", "r", "t", " ">> \o Decimal(idx + 1) \o <<"/">>
         \o Decimal(totalParts) \o <<":", "<", "/", "b", ">", "\n", "\n">>
    ELSE <<>>

\* what bot.Send returns: nil, an error that reads "can't parse entities" or
\* "Bad Request", or any other error
Results == {"ok", "parse", "other"}

\* the generic notice of sendMarkdownMessage: its wording is not modelled
FallbackNotice == <<"!">>

Call(kind, parseMode, txt, res) ==
    [kind |-> kind, parseMode |-> parseMode, txt |-> txt, res |-> res]

SendTexts ==
    {t \in {Flatten(ts) : ts \in UNION {[1..n -> HtmlTokens] : n \in 1..MaxSendTokens}} :
        Balanced(t)}

\* a formatted text with n nested tags around one character
NestedText(n) ==
    Repeat(<<"<", "b", ">">>, n) \o <<"a">> \o Repeat(<<"<", "/", "b", ">">>, n)

\* the (maxPartSize, text) pairs the send functions are run on: the short
\* texts with every small size, and the nested texts with the size that puts
\* the first cut after the innermost character
SendInputs ==
    {[M |-> m, text |-> t] : m \in 1..MaxSendM, t \in SendTexts}
    \cup {[M |-> 3 * n + 1, text |-> NestedText(n)] : n \in 1..MaxDepth}

InitSend ==
    /\ \E in \in SendInputs : M = in.M /\ text = in.text
    /\ raw = <<>>
    /\ fn \in {"sendMessage", "sendMarkdownMessage"}
    /\ mode = (IF fn = "sendMessage" THEN "plain" ELSE "html")
    /\ remaining = text
    /\ bodies = <<>>
    /\ parts = <<>>
    /\ spc = "start"
    /\ partI = 0
    /\ tryJ = 0
    /\ success = FALSE
    /\ calls = <<>>
    /\ delivered = <<>>
    /\ NoHandlers

\* `if len(text) > 4000 { sendMultipart...; return }` of sendMessage and
\* sendMarkdownMessage
Enter ==
    /\ spc = "start"
    /\ spc' = IF Len(text) > M THEN "split" ELSE "single"
    /\ UNCHANGED splitVars
    /\ UNCHANGED sendVars
    /\ UNCHANGED <<storeVars, taskVars>>

\* the single-message loop of sendMessage: one bot.Send and what follows it
SendSingle ==
    /\ spc = "single"
    /\ fn = "sendMessage"
    /\ \E r \in Results :
         /\ calls' = Append(calls, Call("content", "", text, r))
         /\ IF r = "ok"
            THEN spc' = "return" /\ delivered' = <<TRUE>> /\ tryJ' = tryJ
            ELSE IF tryJ < maxRetries - 1
                 THEN spc' = spc /\ delivered' = delivered /\ tryJ' = tryJ + 1
                 ELSE spc' = "return" /\ delivered' = <<FALSE>> /\ tryJ' = tryJ
    /\ UNCHANGED splitVars
    /\ UNCHANGED <<storeVars, taskVars>>
    /\ UNCHANGED <<fn, partI, success>>

\* after a failed round of sendMarkdownMessage's loop: `i++`, or leave the loop
MarkdownNextRound ==
    IF tryJ < maxRetries - 1
    THEN spc' = "single" /\ tryJ' = tryJ + 1
    ELSE spc' = "fallback" /\ tryJ' = tryJ

\* the HTML bot.Send of sendMarkdownMessage's loop
SendMarkdownHTML ==
    /\ spc = "single"
    /\ fn = "sendMarkdownMessage"
    /\ \E r \in Results :
         /\ calls' = Append(calls, Call("content", "HTML", text, r))
         /\ IF r = "ok"
            THEN spc' = "return" /\ delivered' = <<TRUE>> /\ tryJ' = tryJ
            ELSE IF r = "parse"
                 THEN spc' = "singlePlain" /\ delivered' = delivered /\ tryJ' = tryJ
                 ELSE MarkdownNextRound /\ delivered' = delivered
    /\ UNCHANGED splitVars
    /\ UNCHANGED <<storeVars, taskVars>>
    /\ UNCHANGED <<fn, partI, success>>

\* the plain-text bot.Send of sendMarkdownMessage's loop
SendMarkdownPlain ==
    /\ spc = "singlePlain"
    /\ \E r \in Results :
         /\ calls' = Append(calls, Call("content", "", stripHTMLTags(text), r))
         /\ IF r = "ok"
            THEN spc' = "return" /\ delivered' = <<TRUE>> /\ tryJ' = tryJ
            ELSE MarkdownNextRound /\ delivered' = delivered
    /\ UNCHANGED splitVars
    /\ UNCHANGED <<storeVars, taskVars>>
    /\ UNCHANGED <<fn, partI, success>>

\* bot.Send(fallbackMsg) after the loop of sendMarkdownMessage
SendFallback ==
    /\ spc = "fallback"
    /\ \E r \in Results :
         calls' = Append(calls, Call("notice", "", FallbackNotice, r))
    /\ delivered' = <<FALSE>>
    /\ spc' = "return"
    /\ UNCHANGED splitVars
    /\ UNCHANGED <<storeVars, taskVars>>
    /\ UNCHANGED <<fn, partI, tryJ, success>>

\* `for i, part := range parts`: the first iteration, or none
StartParts ==
    /\ spc = "send"
    /\ spc' = IF Len(parts) > 0 THEN "part" ELSE "return"
    /\ UNCHANGED splitVars
    /\ UNCHANGED sendVars
    /\ UNCHANGED <<storeVars, taskVars>>

\* the end of one iteration of the part loop: `if !success { logError }`, the
\* pause, and the next iteration with a fresh message
NextPart(ok, lastCall) ==
    /\ delivered' = Append(delivered, ok)
    /\ IF partI < Len(parts) - 1
       THEN /\ partI' = partI + 1
            /\ tryJ' = 0
            /\ success' = FALSE
            /\ calls' = <<>>
            /\ spc' = "part"
       ELSE /\ partI' = partI
            /\ tryJ' = tryJ
            /\ success' = ok
            /\ calls' = Append(calls, lastCall)
            /\ spc' = "return"

\* as PlainPartFailed, but giving the part up at its first failed attempt
PlainPartFailed_SkipsAhead(c) == NextPart(FALSE, c)

\* after a failed bot.Send of the part loop of sendMultipartMessage
PlainPartFailed(c) ==
    IF tryJ < maxRetries - 1
    THEN /\ tryJ' = tryJ + 1
         /\ calls' = Append(calls, c)
         /\ UNCHANGED <<partI, success, delivered, spc>>
    ELSE NextPart(FALSE, c)

\* one bot.Send of the part loop of sendMultipartMessage
SendPart ==
    /\ spc = "part"
    /\ mode = "plain"
    /\ \E r \in Results :
         LET c == Call("content", "", plainHeader(partI, Len(parts)) \o parts[partI + 1], r)
         IN  IF r = "ok" THEN NextPart(TRUE, c) ELSE PlainPartFailed(c)
    /\ UNCHANGED splitVars
    /\ UNCHANGED <<storeVars, taskVars>>
    /\ UNCHANGED fn

\* after a failed HTML bot.Send of the part loop of sendMultipartHTMLMessage
HTMLPartFailed(c) ==
    /\ calls' = Append(calls, c)
    /\ IF tryJ = maxRetries - 1
       THEN spc' = "partPlain" /\ tryJ' = tryJ
       ELSE spc' = spc /\ tryJ' = tryJ + 1
    /\ UNCHANGED <<partI, success, delivered>>

\* one HTML bot.Send of the part loop of sendMultipartHTMLMessage
SendPartHTML ==
    /\ spc = "part"
    /\ mode = "html"
    /\ \E r \in Results :
         LET c == Call("content", "HTML", htmlHeader(partI, Len(parts)) \o parts[partI + 1], r)
         IN  IF r = "ok" THEN NextPart(TRUE, c) ELSE HTMLPartFailed(c)
    /\ UNCHANGED splitVars
    /\ UNCHANGED <<storeVars, taskVars>>
    /\ UNCHANGED fn

\* the plain-text bot.Send of the last round of sendMultipartHTMLMessage
SendPartPlainFallback ==
    /\ spc = "partPlain"
    /\ \E r \in Results :
         LET c == Call("content", "",
                       stripHTMLTags(htmlHeader(partI, Len(parts)) \o parts[partI + 1]), r)
         IN  NextPart(r = "ok", c)
    /\ UNCHANGED splitVars
    /\ UNCHANGED <<storeVars, taskVars>>
    /\ UNCHANGED fn

NextSend ==
    \/ Enter
    \/ SplitStepPlain
    \/ SplitStepHTML
    \/ SplitFinish
    \/ SendSingle
    \/ SendMarkdownHTML
    \/ SendMarkdownPlain
    \/ SendFallback
    \/ StartParts
    \/ SendPart
    \/ SendPartHTML
    \/ SendPartPlainFallback

SpecSend == InitSend /\ [][NextSend]_vars

-----------------------------------------------------------------------------
(* The conversion at the head of sendMarkdownMessage *)

ConvTokens ==
    {Fence, <<"*", "*">>, <<"*">>, <<"_">>, <<Backtick>>, <<"\n">>, <<"<">>, <<"&">>, <<"a">>}

\* the example of the documentation
SampleText ==
    <<"*", "*", "H", "e", "l", "l", "o", "*", "*", " ", "*", "w",
      "o", "r", "l", "d", "*", ",", " ", "s", "e", "e", " ", "[",
      "d", "o", "c", "s", "]", "(", "h", "t", "t", "p", ":", "/",
      "/", "x", ".", "c", "o", "m", ")">>

ConvertTexts ==
    {Flatten(ts) : ts \in UNION {[1..n -> ConvTokens] : n \in 1..MaxConvTokens}}
    \cup {SampleText}

InitConvert ==
    /\ raw \in ConvertTexts
    /\ text = <<>>
    /\ M = 0
    /\ mode = "html"
    /\ remaining = <<>>
    /\ bodies = <<>>
    /\ parts = <<>>
    /\ spc = "convert"
    /\ fn = "sendMarkdownMessage"
    /\ partI = 0
    /\ tryJ = 0
    /\ success = FALSE
    /\ calls = <<>>
    /\ delivered = <<>>
    /\ NoHandlers

\* processedText := convertToTelegramHTML(text)
Convert ==
    /\ spc = "convert"
    /\ \E order \in MapOrders(entities) : text' = convertToTelegramHTML(raw, order)
    /\ spc' = "start"
    /\ UNCHANGED <<raw, M, mode, remaining, bodies, parts>>
    /\ UNCHANGED sendVars
    /\ UNCHANGED <<storeVars, taskVars>>

NextConvert == Convert

SpecConvert == InitConvert /\ [][NextConvert]_vars

-----------------------------------------------------------------------------
(* The message handlers: main's goroutines and handleMessageWithContext.     *)
(* A message handed to sendMessage or sendMarkdownMessage is recorded once,  *)
(* by what it says; the transport calls behind it are those of SpecSend.     *)

Message(from, txt, cmd, arg, id) ==
    [from |-> from, text |-> txt, cmd |-> cmd, arg |-> arg, id |-> id]

\* the texts of the incoming messages: text, Command(), CommandArguments()
\* (for /addmodel the two fields of SplitN(args, " ", 2))
MessageKinds ==
    <<[text |-> Password, cmd |-> "", arg |-> "", id |-> ""],
      [text |-> "hello", cmd |-> "", arg |-> "", id |-> ""],
      [text |-> "/help", cmd |-> "help", arg |-> "", id |-> ""],
      [text |-> "/settoken tok", cmd |-> "settoken", arg |-> "tok", id |-> ""],
      [text |-> "/setmodel gpt-4", cmd |-> "setmodel", arg |-> "gpt-4", id |-> ""],
      [text |-> "/addmodel mine vendor/mine", cmd |-> "addmodel", arg |-> "mine",
       id |-> "vendor/mine"],
      [text |-> "/removemodel gpt-3.5-turbo", cmd |-> "removemodel",
       arg |-> "gpt-3.5-turbo", id |-> ""],
      [text |-> "/model", cmd |-> "model", arg |-> "", id |-> ""],
      [text |-> "/debug", cmd |-> "debug", arg |-> "", id |-> ""],
      [text |-> "/getcredits", cmd |-> "getcredits", arg |-> "", id |-> ""]>>

\* the settings a user can have in the config file when the bot starts
StoredProfiles ==
    {[authorized |-> FALSE, user |-> NoUser],
     [authorized |-> TRUE, user |-> NewUser],
     [authorized |-> TRUE, user |-> [NewUser EXCEPT !.OpenRouterToken = "tok"]]}

\* the tasks run the same code and start together: their messages are taken
\* in one order only
Ordered(from, kind) ==
    \A t \in Tasks : \A t2 \in Tasks :
        t < t2 => \/ from[t] < from[t2]
                  \/ (from[t] = from[t2] /\ kind[t] <= kind[t2])

Init ==
    /\ \E stored \in [Users -> StoredProfiles] :
         /\ cfgUsers = [u \in Users |-> stored[u].user]
         /\ cfgAuth = [u \in Users |-> stored[u].authorized]
         /\ models = [u \in Users |->
                        IF stored[u].user = NoUser THEN <<>> ELSE defaultModels]
    /\ cfgLog = "info"
    /\ file = Snapshot
    /\ configMu = Free
    /\ bgSaves = 0
    /\ crashed = FALSE
    /\ mainPc = "run"
    /\ \E from \in [Tasks -> Users] : \E kind \in [Tasks -> DOMAIN MessageKinds] :
         /\ Ordered(from, kind)
         /\ msg = [t \in Tasks |->
                     Message(from[t], MessageKinds[kind[t]].text, MessageKinds[kind[t]].cmd,
                             MessageKinds[kind[t]].arg, MessageKinds[kind[t]].id)]
    /\ pc = [t \in Tasks |-> "start"]
    /\ user = [t \in Tasks |-> NoUser]
    /\ auth = [t \in Tasks |-> "unread"]
    /\ ctx = [t \in Tasks |-> "live"]
    /\ sent = [t \in Tasks |-> <<>>]
    /\ backend = [t \in Tasks |-> <<>>]
    /\ wrote = [t \in Tasks |-> FALSE]
    /\ raw = <<>>
    /\ text = <<>>
    /\ M = 0
    /\ mode = "plain"
    /\ remaining = <<>>
    /\ bodies = <<>>
    /\ parts = <<>>
    /\ spc = "return"
    /\ fn = "sendMessage"
    /\ partI = 0
    /\ tryJ = 0
    /\ success = FALSE
    /\ calls = <<>>
    /\ delivered = <<>>

NoSendStep == UNCHANGED <<splitVars, spc, sendVars>>

Goto(t, label) == pc' = [pc EXCEPT ![t] = label]

\* sendMessage / sendMarkdownMessage / bot.Send of a message of the given kind
Send(t, what) == sent' = [sent EXCEPT ![t] = Append(@, what)]

\* ctx.Done() is closed
CtxDone(t) == ctx[t] = "timedout"

\* `select { case <-ctx.Done(): return; default: }` at the head of the handler
CheckCtx(t) ==
    /\ ~crashed
    /\ mainPc = "run"
    /\ pc[t] = "start"
    /\ Goto(t, IF CtxDone(t) THEN "done" ELSE "auth")
    /\ UNCHANGED <<storeVars, msg, user, auth, ctx, sent, backend, wrote>>
    /\ NoSendStep

\* configMu.Lock() of isAuthorized, getUser, updateUser and saveConfig
Lock(t) ==
    /\ ~crashed
    /\ pc[t] \in {"auth", "getUser", "newSave", "update", "save"}
    /\ configMu = Free
    /\ configMu' = Holder(t)
    /\ Goto(t, CASE pc[t] = "auth" -> "authL"
                 [] pc[t] = "getUser" -> "getUserL"
                 [] pc[t] = "newSave" -> "newSaveL"
                 [] pc[t] = "update" -> "updateL"
                 [] OTHER -> "saveL")
    /\ UNCHANGED <<cfgUsers, cfgAuth, cfgLog, models, file, bgSaves, crashed, mainPc>>
    /\ UNCHANGED <<msg, user, auth, ctx, sent, backend, wrote>>
    /\ NoSendStep

\* the decision of isAuthorized for an unauthorized sender: any text passes
isAuthorized_NoPasswordCheck(authorized, txt) ==
    IF authorized THEN "already" ELSE "password"

\* the decision of isAuthorized, from AuthorizedIDs[userID] and message.Text
isAuthorized(authorized, txt) ==
    IF authorized THEN "already"
    ELSE IF txt = Password THEN "password"
    ELSE "denied"

\* the body of isAuthorized, under configMu, with its deferred Unlock
AuthBody(t) ==
    /\ ~crashed
    /\ pc[t] = "authL"
    /\ configMu = Holder(t)
    /\ LET u == msg[t].from
           verdict == isAuthorized(cfgAuth[u], msg[t].text)
       IN  /\ auth' = [auth EXCEPT ![t] = IF cfgAuth[u] THEN "yes" ELSE "no"]
           /\ CASE verdict = "already" ->
                     /\ Goto(t, "getUser")
                     /\ UNCHANGED <<cfgAuth, bgSaves, sent>>
                [] verdict = "password" ->
                     /\ cfgAuth' = [cfgAuth EXCEPT ![u] = TRUE]
                     /\ bgSaves' = bgSaves + 1
                     /\ Send(t, "authOk")
                     /\ Goto(t, "getUser")
                [] OTHER ->
                     /\ Send(t, "authPrompt")
                     /\ Goto(t, "done")
                     /\ UNCHANGED <<cfgAuth, bgSaves>>
    /\ configMu' = Free
    /\ UNCHANGED <<cfgUsers, cfgLog, models, file, crashed, mainPc>>
    /\ UNCHANGED <<msg, user, ctx, backend, wrote>>
    /\ NoSendStep

\* as GetUserBody, but a new user is saved without releasing configMu first
GetUserBody_SavesUnderLock(t) ==
    /\ ~crashed
    /\ pc[t] = "getUserL"
    /\ configMu = Holder(t)
    /\ LET u == msg[t].from
       IN  IF cfgUsers[u] # NoUser
           THEN /\ user' = [user EXCEPT ![t] = cfgUsers[u]]
                /\ Goto(t, "dispatch")
                /\ configMu' = Free
                /\ UNCHANGED <<cfgUsers, models, wrote>>
           ELSE /\ user' = [user EXCEPT ![t] = NewUser]
                /\ cfgUsers' = [cfgUsers EXCEPT ![u] = NewUser]
                /\ models' = [models EXCEPT ![u] = defaultModels]
                /\ wrote' = [wrote EXCEPT ![t] = TRUE]
                /\ Goto(t, "newSave")
                /\ UNCHANGED configMu
    /\ UNCHANGED <<cfgAuth, cfgLog, file, bgSaves, crashed, mainPc>>
    /\ UNCHANGED <<msg, auth, ctx, sent, backend>>
    /\ NoSendStep

\* the locked part of getUser: the stored User, or a new one with the defaults
GetUserBody(t) ==
    /\ ~crashed
    /\ pc[t] = "getUserL"
    /\ configMu = Holder(t)
    /\ LET u == msg[t].from
       IN  IF cfgUsers[u] # NoUser
           THEN /\ user' = [user EXCEPT ![t] = cfgUsers[u]]
                /\ Goto(t, "dispatch")
                /\ UNCHANGED <<cfgUsers, models, wrote>>
           ELSE /\ user' = [user EXCEPT ![t] = NewUser]
                /\ cfgUsers' = [cfgUsers EXCEPT ![u] = NewUser]
                /\ models' = [models EXCEPT ![u] = defaultModels]
                /\ wrote' = [wrote EXCEPT ![t] = TRUE]
                /\ Goto(t, "newSave")
    /\ configMu' = Free
    /\ UNCHANGED <<cfgAuth, cfgLog, file, bgSaves, crashed, mainPc>>
    /\ UNCHANGED <<msg, auth, ctx, sent, backend>>
    /\ NoSendStep

\* the body of saveConfig (a failed os.WriteFile is only logged, and not
\* modelled): after getUser's creation, or after updateUser and /debug
SaveBody(t) ==
    /\ ~crashed
    /\ pc[t] \in {"newSaveL", "saveL"}
    /\ configMu = Holder(t)
    /\ file' = Snapshot
    /\ configMu' = Free
    /\ Goto(t, IF pc[t] = "newSaveL" THEN "dispatch" ELSE "reply")
    /\ UNCHANGED <<cfgUsers, cfgAuth, cfgLog, models, bgSaves, crashed, mainPc>>
    /\ UNCHANGED <<msg, user, auth, ctx, sent, backend, wrote>>
    /\ NoSendStep

\* the outcome of one run of the handler from `if message.IsCommand()` to its
\* next lock, backend call, map deletion or return: where it goes on, the
\* message it sends (if any), its local user, the user's Models map and the
\* backend it calls (if any)
Outcome(goto, say, usr, mp, call) ==
    [goto |-> goto, say |-> say, user |-> usr, models |-> mp, call |-> call]

\* the switch on message.Command()
dispatchCommand(m, usr, mp) ==
    CASE m.cmd \in {"start", "help"} -> Outcome("done", "help", usr, mp, "")
      [] m.cmd = "settoken" ->
           IF m.arg = "" THEN Outcome("done", "usage", usr, mp, "")
           ELSE Outcome("update", "", [usr EXCEPT !.OpenRouterToken = m.arg], mp, "")
      [] m.cmd = "model" ->
           IF usr.CurrentModel = "" THEN Outcome("done", "noModel", usr, mp, "")
           ELSE Outcome("done", "currentModel", usr, mp, "")
      [] m.cmd = "models" ->
           IF DOMAIN mp = {} THEN Outcome("done", "noModels", usr, mp, "")
           ELSE Outcome("done", "modelsList", usr, mp, "")
      [] m.cmd = "setmodel" ->
           IF m.arg = "" THEN Outcome("done", "usage", usr, mp, "")
           ELSE IF m.arg \notin DOMAIN mp THEN Outcome("done", "modelNotFound", usr, mp, "")
           ELSE Outcome("update", "", [usr EXCEPT !.CurrentModel = m.arg], mp, "")
      [] m.cmd = "addmodel" ->
           IF m.arg = "" \/ m.id = "" THEN Outcome("done", "usage", usr, mp, "")
           ELSE Outcome("update", "", usr, MapSet(mp, m.arg, m.id), "")
      [] m.cmd = "removemodel" ->
           IF m.arg = "" THEN Outcome("done", "usage", usr, mp, "")
           ELSE IF m.arg \notin DOMAIN mp THEN Outcome("done", "modelNotFound", usr, mp, "")
           ELSE Outcome("mapDelete", "",
                        IF usr.CurrentModel = m.arg
                        THEN [usr EXCEPT !.CurrentModel = ""] ELSE usr, mp, "")
      [] m.cmd = "getcredits" ->
           IF usr.OpenRouterToken = "" THEN Outcome("done", "needToken", usr, mp, "")
           ELSE Outcome("creditsAwait", "", usr, mp, "credits")
      [] OTHER -> Outcome("done", "unknown", usr, mp, "")

\* the checks of a regular message, up to sendTypingAction
dispatchChat(m, usr, mp, ctxDone) ==
    IF m.text = "" THEN Outcome("done", "needText", usr, mp, "")
    ELSE IF usr.OpenRouterToken = "" THEN Outcome("done", "needToken", usr, mp, "")
    ELSE IF usr.CurrentModel = "" \/ Lookup(mp, usr.CurrentModel) = ""
         THEN Outcome("done", "needModel", usr, mp, "")
    ELSE IF ctxDone THEN Outcome("done", "", usr, mp, "")
    ELSE Outcome("query", "", usr, mp, "")

\* apply an outcome to task t
Apply(t, o) ==
    /\ Goto(t, o.goto)
    /\ sent' = IF o.say = "" THEN sent ELSE [sent EXCEPT ![t] = Append(@, o.say)]
    /\ user' = [user EXCEPT ![t] = o.user]
    /\ models' = [models EXCEPT ![msg[t].from] = o.models]
    /\ backend' = IF o.call = "" THEN backend
                  ELSE [backend EXCEPT ![t] = Append(@, o.call)]
    /\ wrote' = IF o.models = models[msg[t].from] THEN wrote
                ELSE [wrote EXCEPT ![t] = TRUE]

\* handleMessageWithContext after getUser, for every command but /debug
Dispatch(t) ==
    /\ ~crashed
    /\ pc[t] = "dispatch"
    /\ msg[t].cmd # "debug"
    /\ Apply(t, IF msg[t].cmd # ""
                THEN dispatchCommand(msg[t], user[t], models[msg[t].from])
                ELSE dispatchChat(msg[t], user[t], models[msg[t].from], CtxDone(t)))
    /\ UNCHANGED <<cfgUsers, cfgAuth, cfgLog, file, configMu, bgSaves, crashed, mainPc>>
    /\ UNCHANGED <<msg, auth, ctx>>
    /\ NoSendStep

\* case "debug": configMu.Lock()
DebugLock(t) ==
    /\ ~crashed
    /\ pc[t] = "dispatch"
    /\ msg[t].cmd = "debug"
    /\ configMu = Free
    /\ configMu' = Holder(t)
    /\ Goto(t, "debugL")
    /\ UNCHANGED <<cfgUsers, cfgAuth, cfgLog, models, file, bgSaves, crashed, mainPc>>
    /\ UNCHANGED <<msg, user, auth, ctx, sent, backend, wrote>>
    /\ NoSendStep

\* case "debug": the toggle of config.LogLevel and configMu.Unlock()
DebugBody(t) ==
    /\ ~crashed
    /\ pc[t] = "debugL"
    /\ configMu = Holder(t)
    /\ cfgLog' = IF cfgLog = "debug" THEN "info" ELSE "debug"
    /\ configMu' = Free
    /\ Goto(t, "save")
    /\ UNCHANGED <<cfgUsers, cfgAuth, models, file, bgSaves, crashed, mainPc>>
    /\ UNCHANGED <<msg, user, auth, ctx, sent, backend, wrote>>
    /\ NoSendStep

\* case "removemodel": delete(user.Models, modelName)
DeleteModel(t) ==
    /\ ~crashed
    /\ pc[t] = "mapDelete"
    /\ models' = [models EXCEPT ![msg[t].from] = MapDelete(@, msg[t].arg)]
    /\ wrote' = [wrote EXCEPT ![t] = TRUE]
    /\ Goto(t, "update")
    /\ UNCHANGED <<cfgUsers, cfgAuth, cfgLog, file, configMu, bgSaves, crashed, mainPc>>
    /\ UNCHANGED <<msg, user, auth, ctx, sent, backend>>
    /\ NoSendStep

\* the locked part of updateUser: config.Users[userID] = user
UpdateBody(t) ==
    /\ ~crashed
    /\ pc[t] = "updateL"
    /\ configMu = Holder(t)
    /\ cfgUsers' = [cfgUsers EXCEPT ![msg[t].from] = user[t]]
    /\ wrote' = [wrote EXCEPT ![t] = TRUE]
    /\ configMu' = Free
    /\ Goto(t, "save")
    /\ UNCHANGED <<cfgAuth, cfgLog, models, file, bgSaves, crashed, mainPc>>
    /\ UNCHANGED <<msg, user, auth, ctx, sent, backend>>
    /\ NoSendStep

\* the confirmation a command sends after updateUser / saveConfig
replyOf(cmd) ==
    CASE cmd = "settoken" -> "tokenSet"
      [] cmd = "setmodel" -> "modelSet"
      [] cmd = "addmodel" -> "modelAdded"
      [] cmd = "removemodel" -> "modelRemoved"
      [] OTHER -> "debugToggled"

Reply(t) ==
    /\ ~crashed
    /\ pc[t] = "reply"
    /\ Send(t, replyOf(msg[t].cmd))
    /\ Goto(t, "done")
    /\ UNCHANGED storeVars
    /\ UNCHANGED <<msg, user, auth, ctx, backend, wrote>>
    /\ NoSendStep

\* queryOpenRouterWithContext up to httpClient.Do: the model id, the check
\* of ctx, the request
Query(t) ==
    /\ ~crashed
    /\ pc[t] = "query"
    /\ IF Lookup(models[msg[t].from], user[t].CurrentModel) = "" \/ CtxDone(t)
       THEN /\ Send(t, "error")
            /\ Goto(t, "done")
            /\ UNCHANGED backend
       ELSE /\ backend' = [backend EXCEPT ![t] = Append(@, "complete")]
            /\ Goto(t, "await")
            /\ UNCHANGED sent
    /\ UNCHANGED storeVars
    /\ UNCHANGED <<msg, user, auth, ctx, wrote>>
    /\ NoSendStep

\* as Await, but an error of the backend is answered by a second request
Await_RetriesOnError(t) ==
    /\ ~crashed
    /\ pc[t] = "await"
    /\ \/ Send(t, "response") /\ Goto(t, "done")
       \/ IF Len(backend[t]) < 2
          THEN UNCHANGED sent /\ Goto(t, "query")
          ELSE Send(t, "error") /\ Goto(t, "done")
    /\ UNCHANGED storeVars
    /\ UNCHANGED <<msg, user, auth, ctx, backend, wrote>>
    /\ NoSendStep

\* the backend answers (or fails, or is cut off by ctx): the handler sends the
\* response with sendMarkdownMessage, or "Error: ..." with sendMessage
Await(t) ==
    /\ ~crashed
    /\ pc[t] = "await"
    /\ \E r \in {"response", "error"} : Send(t, r)
    /\ Goto(t, "done")
    /\ UNCHANGED storeVars
    /\ UNCHANGED <<msg, user, auth, ctx, backend, wrote>>
    /\ NoSendStep

\* GetCredits returns: the credits, or "Error getting credits: ..."
CreditsAwait(t) ==
    /\ ~crashed
    /\ pc[t] = "creditsAwait"
    /\ \E r \in {"creditsInfo", "creditsError"} : Send(t, r)
    /\ Goto(t, "done")
    /\ UNCHANGED storeVars
    /\ UNCHANGED <<msg, user, auth, ctx, backend, wrote>>
    /\ NoSendStep

\* main's goroutine: `case <-ctx.Done()`, the deadline of handlerTimeout has
\* passed; it sends the timeout notice
Timeout(t) ==
    /\ ~crashed
    /\ mainPc = "run"
    /\ ctx[t] = "live"
    /\ ctx' = [ctx EXCEPT ![t] = "timedout"]
    /\ Send(t, "timeout")
    /\ UNCHANGED storeVars
    /\ UNCHANGED <<msg, pc, user, auth, backend, wrote>>
    /\ NoSendStep

\* main's goroutine: `case <-done`, the handler has returned
Completed(t) ==
    /\ ~crashed
    /\ ctx[t] = "live"
    /\ pc[t] = "done"
    /\ ctx' = [ctx EXCEPT ![t] = "completed"]
    /\ UNCHANGED storeVars
    /\ UNCHANGED <<msg, pc, user, auth, sent, backend, wrote>>
    /\ NoSendStep

\* a `go saveConfig()` of isAuthorized: configMu.Lock()
BgLock ==
    /\ ~crashed
    /\ bgSaves > 0
    /\ configMu = Free
    /\ configMu' = BgSaver
    /\ UNCHANGED <<cfgUsers, cfgAuth, cfgLog, models, file, bgSaves, crashed, mainPc>>
    /\ UNCHANGED taskVars
    /\ NoSendStep

\* a `go saveConfig()` of isAuthorized: the write and the deferred Unlock
BgSave ==
    /\ ~crashed
    /\ configMu = BgSaver
    /\ file' = Snapshot
    /\ bgSaves' = bgSaves - 1
    /\ configMu' = Free
    /\ UNCHANGED <<cfgUsers, cfgAuth, cfgLog, models, crashed, mainPc>>
    /\ UNCHANGED taskVars
    /\ NoSendStep

\* task t is about to write the Models map of its user without holding configMu
WritesMap(t) ==
    \/ pc[t] = "mapDelete"
    \/ /\ pc[t] = "dispatch"
       /\ msg[t].cmd = "addmodel"
       /\ msg[t].arg # ""
       /\ msg[t].id # ""

\* task t is about to read the Models map of its user without holding configMu
ReadsMap(t) ==
    \/ pc[t] = "query"
    \/ pc[t] = "reply" /\ msg[t].cmd = "setmodel"
    \/ /\ pc[t] = "dispatch"
       /\ \/ msg[t].cmd = "model" /\ user[t].CurrentModel # ""
          \/ msg[t].cmd = "models"
          \/ msg[t].cmd \in {"setmodel", "removemodel"} /\ msg[t].arg # ""
          \/ /\ msg[t].cmd = ""
             /\ msg[t].text # ""
             /\ user[t].OpenRouterToken # ""
             /\ user[t].CurrentModel # ""

\* json.MarshalIndent(config) of a saveConfig is about to read every Models map
Marshals(t) == pc[t] \in {"newSaveL", "saveL"}

\* a map write that is concurrent with another access of the same map: the Go
\* runtime may stop the process ("concurrent map writes", "concurrent map read
\* and map write"); when it does not, the accesses take effect one after the
\* other, which the other actions cover
MapRaceFatal ==
    /\ ~crashed
    /\ \E t \in Tasks :
         /\ WritesMap(t)
         /\ \/ configMu = BgSaver
            \/ \E t2 \in Tasks \ {t} :
                 \/ Marshals(t2)
                 \/ /\ msg[t2].from = msg[t].from
                    /\ (WritesMap(t2) \/ ReadsMap(t2))
    /\ crashed' = TRUE
    /\ UNCHANGED <<cfgUsers, cfgAuth, cfgLog, models, file, configMu, bgSaves, mainPc>>
    /\ UNCHANGED taskVars
    /\ NoSendStep

Next ==
    \/ \E t \in Tasks : CheckCtx(t)
    \/ \E t \in Tasks : Lock(t)
    \/ \E t \in Tasks : AuthBody(t)
    \/ \E t \in Tasks : GetUserBody(t)
    \/ \E t \in Tasks : SaveBody(t)
    \/ \E t \in Tasks : Dispatch(t)
    \/ \E t \in Tasks : DebugLock(t)
    \/ \E t \in Tasks : DebugBody(t)
    \/ \E t \in Tasks : DeleteModel(t)
    \/ \E t \in Tasks : UpdateBody(t)
    \/ \E t \in Tasks : Reply(t)
    \/ \E t \in Tasks : Query(t)
    \/ \E t \in Tasks : Await(t)
    \/ \E t \in Tasks : CreditsAwait(t)
    \/ \E t \in Tasks : Timeout(t)
    \/ \E t \in Tasks : Completed(t)
    \/ BgLock
    \/ BgSave
    \/ MapRaceFatal

Spec == Init /\ [][Next]_vars

-----------------------------------------------------------------------------
(* The program from its start: main calls loadConfig, then serves updates.   *)

\* bot_config.json does not exist (a file saveConfig wrote has a log level)
NoFile ==
    [Users |-> [u \in Users |-> NoUser], AuthorizedIDs |-> [u \in Users |-> FALSE],
     LogLevel |-> "", Models |-> [u \in Users |-> <<>>]]

\* config is the zero Config, the file is absent or holds stored settings, the
\* messages are those of Init
InitLoad ==
    /\ cfgUsers = [u \in Users |-> NoUser]
    /\ cfgAuth = [u \in Users |-> FALSE]
    /\ cfgLog = ""
    /\ models = [u \in Users |-> <<>>]
    /\ \/ file = NoFile
       \/ \E stored \in [Users -> StoredProfiles] :
            file = [Users |-> [u \in Users |-> stored[u].user],
                    AuthorizedIDs |-> [u \in Users |-> stored[u].authorized],
                    LogLevel |-> "info",
                    Models |-> [u \in Users |->
                                  IF stored[u].user = NoUser THEN <<>> ELSE defaultModels]]
    /\ configMu = Free
    /\ bgSaves = 0
    /\ crashed = FALSE
    /\ mainPc = "load"
    /\ \E from \in [Tasks -> Users] : \E kind \in [Tasks -> DOMAIN MessageKinds] :
         /\ Ordered(from, kind)
         /\ msg = [t \in Tasks |->
                     Message(from[t], MessageKinds[kind[t]].text, MessageKinds[kind[t]].cmd,
                             MessageKinds[kind[t]].arg, MessageKinds[kind[t]].id)]
    /\ pc = [t \in Tasks |-> "start"]
    /\ user = [t \in Tasks |-> NoUser]
    /\ auth = [t \in Tasks |-> "unread"]
    /\ ctx = [t \in Tasks |-> "live"]
    /\ sent = [t \in Tasks |-> <<>>]
    /\ backend = [t \in Tasks |-> <<>>]
    /\ wrote = [t \in Tasks |-> FALSE]
    /\ raw = <<>>
    /\ text = <<>>
    /\ M = 0
    /\ mode = "plain"
    /\ remaining = <<>>
    /\ bodies = <<>>
    /\ parts = <<>>
    /\ spc = "return"
    /\ fn = "sendMessage"
    /\ partI = 0
    /\ tryJ = 0
    /\ success = FALSE
    /\ calls = <<>>
    /\ delivered = <<>>

\* configMu.Lock() of loadConfig, and of the saveConfig loadConfig calls
LoadLock ==
    /\ mainPc \in {"load", "loadSave"}
    /\ configMu = Free
    /\ configMu' = Main
    /\ mainPc' = IF mainPc = "load" THEN "loadL" ELSE "loadSaveL"
    /\ UNCHANGED <<cfgUsers, cfgAuth, cfgLog, models, file, bgSaves, crashed>>
    /\ UNCHANGED taskVars
    /\ NoSendStep

\* the body of loadConfig under configMu: the default Config, the file parsed
\* into it, the Telegram token of the file or of the environment; every branch
\* unlocks: before os.Exit(1), before saveConfig, or at the end
LoadBody ==
    /\ mainPc = "loadL"
    /\ configMu = Main
    /\ cfgUsers' = file.Users
    /\ cfgAuth' = file.AuthorizedIDs
    /\ cfgLog' = IF file = NoFile THEN "info" ELSE file.LogLevel
    /\ models' = file.Models
    /\ \E token \in {"file", "env", "none"} :
         /\ token = "file" => file # NoFile
         /\ mainPc' = CASE token = "file" -> "run"
                        [] token = "env" -> "loadSave"
                        [] OTHER -> "exit"
    /\ configMu' = Free
    /\ UNCHANGED <<file, bgSaves, crashed>>
    /\ UNCHANGED taskVars
    /\ NoSendStep

\* the body of the saveConfig loadConfig calls, with its deferred Unlock
LoadSave ==
    /\ mainPc = "loadSaveL"
    /\ configMu = Main
    /\ file' = Snapshot
    /\ configMu' = Free
    /\ mainPc' = "run"
    /\ UNCHANGED <<cfgUsers, cfgAuth, cfgLog, models, bgSaves, crashed>>
    /\ UNCHANGED taskVars
    /\ NoSendStep

NextLoad ==
    \/ LoadLock
    \/ LoadBody
    \/ LoadSave
    \/ Next

\* every goroutine that can take a step is scheduled, and the sends, backend
\* calls and file writes inside the steps return
SpecLoad == InitLoad /\ [][NextLoad]_vars /\ WF_vars(NextLoad)

-----------------------------------------------------------------------------
(* Claims about the split loops (checked under SpecSplit) *)

\* C3: every part body cut by repeated findSplitPoint calls has length at most
\* M, the header not counted.
C3_PartBodyAtMostM ==
    \A k \in 1..Len(bodies) : Len(bodies[k]) <= M

\* C4: the part bodies, concatenated in send order (before headers are
\* prefixed and closing tags appended), equal the input text exactly.
C4_BodiesConcatenateToText ==
    /\ (spc = "split" => Flatten(bodies) \o remaining = text)
    /\ (spc = "send" => Flatten(bodies) = text)

\* a finished split of at least three parts, one of them cut after a boundary
C4_Witness ==
    /\ spc = "send"
    /\ Len(bodies) >= 3
    /\ Flatten(bodies) = text
    /\ \E k \in 1..(Len(bodies) - 1) : bodies[k][Len(bodies[k])] \in {" ", "\n"}

\* C5: every part of sendMultipartHTMLMessage, scanned alone with a tag stack,
\* never meets a closing tag without its opener and ends with an empty stack.
C5_EveryHTMLPartBalanced ==
    (mode = "html" /\ spc = "send") => \A k \in 1..Len(parts) : Balanced(parts[k])

\* the text the last cut was made in
BeforeLastCut == bodies[Len(bodies)] \o remaining

\* a cut was just made by findSplitPoint
AfterCut == spc = "split" /\ bodies # <<>>

\* C15: findSplitPoint chooses the cut by strict priority within the window
\* from M/2 to M of the remaining text: after a paragraph boundary if one lies
\* in the window, else after a line boundary, else after a sentence boundary,
\* else after a space, else exactly at M; within the winning class the
\* boundary closest to M is taken.  (Boundaries are looked for at the indices
\* above M/2 up to M; a sentence boundary is '.', '?' or '!' followed by a
\* space.)
C15_CutByStrictPriority ==
    AfterCut =>
      LET t     == BeforeLastCut
          W     == (M \div 2 + 1)..M
          para  == {i \in W : At(t, i) = "\n" /\ At(t, i - 1) = "\n"}
          line  == {i \in W : At(t, i) = "\n"}
          sents == {i \in W : /\ IsSentenceEnd(At(t, i))
                               /\ i + 1 < Len(t)
                               /\ At(t, i + 1) = " "}
          space == {i \in W : At(t, i) = " "}
          cut   == IF para # {} THEN Max(para) + 1
                   ELSE IF line # {} THEN Max(line) + 1
                   ELSE IF sents # {} THEN Max(sents) + 2
                   ELSE IF space # {} THEN Max(space) + 1
                   ELSE M
      IN  Len(bodies[Len(bodies)]) = cut

\* C16: findSplitPoint cuts at a sentence boundary only where '.', '?' or '!'
\* is followed by a space, and the cut then falls after that space; a '.', '?'
\* or '!' that is not followed by a space is never used as a sentence cut: a
\* part body can end with one only where the cut is the one exactly at M.
C16_SentenceCutNeedsSpace ==
    (AfterCut /\ IsSentenceEnd(bodies[Len(bodies)][Len(bodies[Len(bodies)])]))
    => Len(bodies[Len(bodies)]) = M

\* C17: for every text longer than M and every M >= 1, findSplitPoint returns
\* a cut r with M/2 < r <= len(text) and reads no index outside the text;
\* hence the split loops make progress at every cut (and so terminate) and
\* every non-final part body holds more than M/2 characters.
C17_CutWithinBounds ==
    /\ (spc = "split" /\ Len(remaining) > M)
         => /\ findSplitPoint(remaining, M) > M \div 2
            /\ findSplitPoint(remaining, M) <= Len(remaining)
            /\ findSplitPointReads(remaining, M) \subseteq 0..(Len(remaining) - 1)
    /\ \A k \in 1..Len(bodies) :
         (k < Len(bodies) \/ spc = "split") => Len(bodies[k]) > M \div 2
    /\ spc = "split" => Len(remaining) = Len(text) - Len(Flatten(bodies))

\* a split of three parts, one cut just above the middle of the window after
\* a boundary and one cut exactly at M
C17_Witness ==
    /\ spc = "send"
    /\ M >= 3
    /\ Len(bodies) = 3
    /\ \E k \in 1..2 : Len(bodies[k]) = M \div 2 + 2
    /\ \E k \in 1..2 : Len(bodies[k]) = M /\ bodies[k][M] = "a"

-----------------------------------------------------------------------------
(* Claims about the send loops (checked under SpecSend) *)

ContentCalls == {k \in 1..Len(calls) : calls[k].kind = "content"}

\* C6: when the first send attempt of a formatted part (the single message of
\* sendMarkdownMessage, a part of sendMultipartHTMLMessage) fails with a
\* markup-parse error, the next transport call for it is the tag-stripped text
\* in plain mode, and if that call succeeds the part is delivered after
\* exactly 2 transport calls.
C6_ParseErrorThenPlainResend ==
    (/\ fn = "sendMarkdownMessage"
     /\ Len(calls) >= 2
     /\ calls[1].kind = "content"
     /\ calls[1].res = "parse")
    => /\ calls[2].kind = "content"
       /\ calls[2].parseMode = ""
       /\ calls[2].txt = stripHTMLTags(calls[1].txt)
       /\ (calls[2].res = "ok" => Len(calls) = 2)

\* C7: when the sends of one part keep failing with errors that are not
\* markup-parse errors, the part is handed to the transport at most 3 times in
\* total, in every send path.
C7_AtMostThreeTransportCalls ==
    (\A k \in ContentCalls : calls[k].res = "other")
    => Cardinality(ContentCalls) <= maxRetries

\* C8: in a multi-part send, once the first part has permanently failed, no
\* later part of that message is handed to the transport.
C8_NoPartAfterFirstFailed ==
    (Len(parts) > 1 /\ Len(delivered) >= 1 /\ ~delivered[1])
    => ~(partI >= 1 /\ calls # <<>>)

\* C9: whenever delivery permanently fails, a send of a user-visible notice is
\* attempted afterwards; no terminal failure path ends with only a log entry.
C9_FailureEndsWithNotice ==
    (spc = "return" /\ \E k \in 1..Len(delivered) : ~delivered[k])
    => \E k \in 1..Len(calls) : calls[k].kind = "notice"

\* C11: every text handed to the transport for a model response (the unsplit
\* message, or header + part body + closing tags appended by
\* ensureHTMLTagsClosed) has length at most the transport's hard limit, 4096
\* against the 4000 of the size checks: 96 more than M.
C11_SentTextWithinHardLimit ==
    \A k \in ContentCalls : Len(calls[k].txt) <= M + 96


StartsWith(s, p) == Len(s) >= Len(p) /\ SubSeq(s, 1, Len(p)) = p

IsDigit(c) == \E d \in 1..10 : DigitChar[d] = c

\* the maximal run of decimal digits of s that starts at index p
RECURSIVE DigitRun(_, _)
DigitRun(s, p) ==
    IF p < Len(s) /\ IsDigit(At(s, p)) THEN <<At(s, p)>> \o DigitRun(s, p + 1)
    ELSE <<>>

\* the number a digit sequence reads as
RECURSIVE Number(_)
Number(ds) ==
    IF ds = <<>> THEN 0
    ELSE 10 * Number(SubSeq(ds, 1, Len(ds) - 1))
         + (CHOOSE d \in 0..9 : DigitChar[d + 1] = ds[Len(ds)])

NoHeader == [ok |-> FALSE, i |-> 0, n |-> 0, rest |-> <<>>]

\* a sent text read back: "Part i/N:" (bold or not) and an empty line in
\* front of the rest, or no header
ParseHeader(txt) ==
    LET bold == StartsWith(txt, <<"<", "b", ">">>)
        t1   == IF bold THEN Slice(txt, 3, Len(txt)) ELSE txt
        word == <<"P", "a", "r", "t", " ">>
        t2   == Slice(t1, 5, Len(t1))
        di   == DigitRun(t2, 0)
        t3   == Slice(t2, Len(di) + 1, Len(t2))
        dn   == DigitRun(t3, 0)
        t4   == Slice(t3, Len(dn), Len(t3))
        tail == IF bold THEN <<":", "<", "/", "b", ">", "\n", "\n">> ELSE <<":", "\n", "\n">>
    IN  IF /\ StartsWith(t1, word)
           /\ di # <<>>
           /\ Len(di) < Len(t2)
           /\ At(t2, Len(di)) = "/"
           /\ dn # <<>>
           /\ StartsWith(t4, tail)
        THEN [ok |-> TRUE, i |-> Number(di), n |-> Number(dn),
              rest |-> Slice(t4, Len(tail), Len(t4))]
        ELSE NoHeader

\* the calls recorded are those of the part loops
InPartLoop == spc \in {"part", "partPlain"} \/ (spc = "return" /\ parts # <<>>)

\* C13: a part carries a "Part i/N" header if and only if the split produced
\* N > 1 parts, and then i is the part's 1-based position in send order and N
\* the total number of parts; a text whose length is at most M is sent as
\* exactly one part without header.
C13_HeaderIffMultipart ==
    /\ (Len(text) <= M => parts = <<>> /\ spc \notin {"split", "send", "part", "partPlain"})
    /\ \A k \in ContentCalls :
         LET h == ParseHeader(calls[k].txt)
         IN  IF InPartLoop
             THEN IF Len(parts) > 1
                  THEN /\ h.ok
                       /\ h.i = partI + 1
                       /\ h.n = Len(parts)
                       /\ h.rest \in {parts[partI + 1], stripHTMLTags(parts[partI + 1])}
                  ELSE /\ ~h.ok
                       /\ calls[k].txt \in {parts[1], stripHTMLTags(parts[1])}
             ELSE /\ ~h.ok
                  /\ Len(text) <= M
                  /\ calls[k].txt \in {text, stripHTMLTags(text)}

\* the second of at least two parts went out under "Part 2/N", in both the
\* formatted and the tag-stripped form
C13_Witness ==
    /\ InPartLoop
    /\ Len(parts) >= 2
    /\ partI = 1
    /\ Len(calls) >= 2
    /\ ParseHeader(calls[1].txt).i = 2
    /\ ParseHeader(calls[Len(calls)].txt).n = Len(parts)
    /\ calls[1].parseMode # calls[Len(calls)].parseMode

\* C14: if the plain-text resend of a part fails too, the part is failed and
\* terminal: no further send of that part, formatted or plain, is attempted
\* afterwards.
C14_NoSendAfterPlainResendFailed ==
    \A k \in ContentCalls :
        (fn = "sendMarkdownMessage" /\ calls[k].parseMode = "" /\ calls[k].res # "ok")
        => \A l \in ContentCalls : l <= k

\* C18: within one message-handling task the parts of a multi-part message
\* are handed to the transport strictly in ascending index order, one attempt
\* at a time: the first attempt of part i+1 happens only after part i was
\* delivered or all its attempts were exhausted, and no attempt of part i
\* follows an attempt of part i+1.
C18_PartsInOrderOneAtATime ==
    /\ [](InPartLoop =>
            /\ partI < Len(parts)
            /\ Len(delivered) \in {partI, partI + 1}
            /\ (spc # "return" => Len(delivered) = partI)
            /\ \A k \in ContentCalls :
                 \E h \in {<<>>, plainHeader(partI, Len(parts)), htmlHeader(partI, Len(parts))} :
                     calls[k].txt \in {h \o parts[partI + 1],
                                       stripHTMLTags(h \o parts[partI + 1])})
    /\ [][/\ partI' \in {partI, partI + 1}
          /\ Len(calls') <= Len(calls) + 1
          /\ (partI' = partI + 1)
               => /\ Len(delivered') = partI'
                  /\ (delivered'[partI'] \/ tryJ = maxRetries - 1)
                  /\ calls' = <<>>]_vars

\* the third part is being attempted after the first part failed for good and
\* the second was delivered
C18_Witness ==
    /\ spc \in {"part", "partPlain"}
    /\ partI = 2
    /\ delivered = <<FALSE, TRUE>>
    /\ calls # <<>>

-----------------------------------------------------------------------------
(* Claims about convertToTelegramHTML (checked under SpecConvert) *)

\* the conversion has run
Converted == spc = "start" /\ fn = "sendMarkdownMessage" /\ raw # <<>>

\* raw is one fenced code block: "```", a language tag, a newline, the
\* content, "```"
IsFencedBlock(r) ==
    /\ StartsAt(r, 0, Fence)
    /\ CodeBlockNewlines(r, 0) # {}
    /\ Ends(r, Min(CodeBlockNewlines(r, 0)) + 1, Fence, FALSE) # {}
    /\ Min(Ends(r, Min(CodeBlockNewlines(r, 0)) + 1, Fence, FALSE)) = Len(r) - 3

FencedContent(r) == Slice(r, Min(CodeBlockNewlines(r, 0)) + 1, Len(r) - 3)

\* C19: in the output of convertToTelegramHTML, every reserved character
\* ('<', '>', '&') that occurs inside a fenced code block is still in escaped
\* form inside the resulting <pre> block, and the code content is not changed
\* by any later translation step (emphasis, link, table, entity decoding):
\* a text that is one fenced block becomes <pre>, the escaped content, </pre>.
C19_CodeBlockStaysEscaped ==
    (Converted /\ IsFencedBlock(raw))
    => text = <<"<", "p", "r", "e", ">">> \o EscapeString(FencedContent(raw)) \o <<"<", "/", "p", "r", "e", ">">>

\* C20: convertToTelegramHTML renders a span delimited by single asterisks or
\* single underscores as italic markup <i>text</i>, and a span delimited by
\* double asterisks as bold <b>text</b>; the example of the documentation
\* yields bold "Hello", italic "world" and the link.
C20_SingleAsteriskIsItalic ==
    Converted
    => /\ (raw = <<"*", "a", "*">> => text = <<"<", "i", ">", "a", "<", "/", "i", ">">>)
       /\ (raw = <<"_", "a", "_">> => text = <<"<", "i", ">", "a", "<", "/", "i", ">">>)
       /\ (raw = <<"*", "*", "a", "*", "*">> => text = <<"<", "b", ">", "a", "<", "/", "b", ">">>)
       /\ (raw = SampleText
             => text = <<"<", "b", ">", "H", "e", "l", "l", "o", "<", "/", "b", ">",
                        " ", "<", "i", ">", "w", "o", "r", "l", "d", "<", "/", "i",
                        ">", ",", " ", "s", "e", "e", " ", "<", "a", " ", "h", "r",
                        "e", "f", "=", "\"", "h", "t", "t", "p", ":", "/", "/", "x",
                        ".", "c", "o", "m", "\"", ">", "d", "o", "c", "s", "<", "/",
                        "a", ">">>)

-----------------------------------------------------------------------------
(* Claims about the message handlers (checked under Spec) *)

\* what handleMessageWithContext itself handed to the transport for task t
HandlerSent(t) == SelectSeq(sent[t], LAMBDA x : x # "timeout")

AllDone == \A t \in Tasks : pc[t] = "done"

\* C1: a message from a user who is not marked authorized and whose text is
\* not the bot password gets only the password prompt: the handler executes no
\* command for it, creates or changes no user settings and calls neither the
\* completion backend nor the credits backend.
C1_UnauthorizedGetsOnlyPrompt ==
    \A t \in Tasks :
        (auth[t] = "no" /\ msg[t].text # Password)
        => /\ pc[t] = "done"
           /\ HandlerSent(t) = <<"authPrompt">>
           /\ user[t] = NoUser
           /\ ~wrote[t]
           /\ backend[t] = <<>>

\* an unauthorized /settoken was answered with the prompt, and the password
\* message of the same user went through and created the user's settings
C1_Witness ==
    \E t \in Tasks : \E t2 \in Tasks :
        /\ msg[t].from = msg[t2].from
        /\ auth[t] = "no"
        /\ msg[t].cmd = "settoken"
        /\ pc[t] = "done"
        /\ HandlerSent(t) = <<"authPrompt">>
        /\ auth[t2] = "no"
        /\ msg[t2].text = Password
        /\ wrote[t2]
        /\ pc[t2] = "done"

\* C2: every settings change is an atomic read-modify-write: when two
\* settings-changing commands of the same user are handled concurrently, the
\* User stored afterwards reflects both changes (here: a token that was
\* confirmed as set is stored, a model that was confirmed as added is in the
\* map), no update is lost or overwritten by a stale copy.
C2_NoSettingsChangeLost ==
    (AllDone /\ ~crashed)
    => \A t \in Tasks :
         /\ ("tokenSet" \in Range(sent[t])
               => cfgUsers[msg[t].from].OpenRouterToken = msg[t].arg)
         /\ ("modelAdded" \in Range(sent[t])
               => Lookup(models[msg[t].from], msg[t].arg) = msg[t].id)

\* C10: if the handler deadline elapses before handleMessageWithContext
\* completes, the timeout notice is sent and the task is abandoned: after the
\* timeout fired the task hands no model response to the transport, so one
\* request never yields both the timeout notice and a response.
C10_NoResponseAfterTimeout ==
    \A t \in Tasks :
        \A k \in 1..Len(sent[t]) : \A l \in 1..Len(sent[t]) :
            ~(k < l /\ sent[t][k] = "timeout" /\ sent[t][l] = "response")

\* C12: for one incoming chat message the completion backend is called at most
\* once; when the call returns an error exactly one "Error: ..." message is
\* sent with sendMessage, the call is not retried and no formatted response is
\* sent (and a call that returned has been answered by exactly one of the two).
C12_BackendOnceAndOneError ==
    \A t \in Tasks :
        msg[t].cmd = ""
        => /\ Len(backend[t]) <= 1
           /\ ("error" \in Range(sent[t])
                 => /\ Count(sent[t], "error") = 1
                    /\ "response" \notin Range(sent[t])
                    /\ pc[t] = "done")
           /\ ((pc[t] = "done" /\ backend[t] # <<>>)
                 => Count(sent[t], "error") + Count(sent[t], "response") = 1)

\* a chat message whose one backend call failed and was answered by the error
\* message, while the other task's chat message got its response
C12_Witness ==
    \E t \in Tasks : \E t2 \in Tasks \ {t} :
        /\ msg[t].cmd = ""
        /\ backend[t] = <<"complete">>
        /\ HandlerSent(t) = <<"error">>
        /\ pc[t] = "done"
        /\ backend[t2] = <<"complete">>
        /\ HandlerSent(t2) = <<"response">>

\* C21: for a user who has no stored settings before authorizing, the message
\* that authorizes the user (text equal to the bot password) is never sent to
\* the completion backend as a prompt, under any interleaving with other
\* messages of that user handled concurrently.
C21_PasswordNeverSentAsPrompt ==
    \A t \in Tasks :
        (auth[t] = "no" /\ msg[t].text = Password) => backend[t] = <<>>

\* C22: after any sequence or interleaving of /setmodel, /addmodel and
\* /removemodel commands of one user, the stored CurrentModel of that user is
\* either empty or a key of the user's stored Models map.
C22_CurrentModelIsStoredModel ==
    (AllDone /\ ~crashed)
    => \A u \in Users :
         (/\ cfgUsers[u] # NoUser
          /\ \A t \in Tasks :
               msg[t].from = u => msg[t].cmd \in {"setmodel", "addmodel", "removemodel"})
         => \/ cfgUsers[u].CurrentModel = ""
            \/ Lookup(models[u], cfgUsers[u].CurrentModel) # ""

\* task t is blocked in a configMu.Lock(): of isAuthorized, getUser, saveConfig,
\* updateUser or /debug
Waits(t) ==
    \/ pc[t] \in {"auth", "getUser", "newSave", "update", "save"}
    \/ pc[t] = "dispatch" /\ msg[t].cmd = "debug"

\* task t is between a configMu.Lock() and the Unlock that follows it
Locked(t) == pc[t] \in {"authL", "getUserL", "newSaveL", "updateL", "saveL", "debugL"}

\* some goroutine is blocked in a configMu.Lock(): a handler, main, or a
\* `go saveConfig()`
AnyoneWaits ==
    \/ \E t \in Tasks : mainPc = "run" /\ Waits(t)
    \/ mainPc \in {"load", "loadSave"}
    \/ bgSaves > (IF configMu = BgSaver THEN 1 ELSE 0)

\* C23: configMu is never acquired by a task that already holds it (whoever
\* is about to lock it is not its holder), it is released on every path
\* through isAuthorized, getUser, updateUser, saveConfig, loadConfig and the
\* /debug command (its holder is always inside one of their locked sections),
\* and no task waits forever for it, provided the sends and file writes
\* return: again and again nobody waits, or the process is gone.
C23_LockReleasedAndNeverStuck ==
    /\ [](/\ \A t \in Tasks : Waits(t) => configMu # Holder(t)
          /\ \A t \in Tasks : configMu = Holder(t) => Locked(t)
          /\ mainPc \in {"load", "loadSave"} => configMu # Main
          /\ configMu = Main => mainPc \in {"loadL", "loadSaveL"}
          /\ configMu = BgSaver => bgSaves > 0)
    /\ []<>(crashed \/ ~AnyoneWaits)

\* a handler waits for configMu while another handler holds it
C23_Witness ==
    \E t \in Tasks : \E t2 \in Tasks \ {t} :
        /\ Waits(t)
        /\ configMu = Holder(t2)
        /\ Locked(t2)

\* C24: findSplitPoint never cuts inside a multi-byte UTF-8 character: for
\* every valid UTF-8 text, every part body the split loops of
\* sendMultipartMessage and sendMultipartHTMLMessage produce is valid UTF-8,
\* the fallback cut at M included.
C24_EveryPartBodyValidUTF8 ==
    ValidString(text) => \A k \in 1..Len(bodies) : ValidString(bodies[k])

=============================================================================
